---- MODULE Spec2Model ----
(***************************************************************************)
(* Model of transcribe_videos.py: the ingestion pipeline main() with its   *)
(* phases update_existing_stats, update_missing_transcripts,               *)
(* search_youtube_videos, fetch_video_details, process_videos, and the     *)
(* table store load_existing_data / save_data.                             *)
(*                                                                         *)
(* The external collaborators are modelled by their observable outcomes:   *)
(*   - a YouTube API request returns a response, raises HttpError with     *)
(*     status 403, raises HttpError with another status, or raises another *)
(*     exception;                                                          *)
(*   - a transcript request returns a text or raises, and language         *)
(*     detection returns a language or raises (the variable captions holds *)
(*     the service's answer for each video);                               *)
(*   - DataFrame.to_csv succeeds or raises (twice in save_data).           *)
(* A Python exception that no handler of the callee catches propagates to  *)
(* the caller; in main it reaches the handler at line 340.                 *)
(***************************************************************************)
EXTENDS Integers, Sequences, FiniteSets, TLC

----------------------------------------------------------------------------
(* Bounds of the model *)

\* rows of the table file at the start of a run
MaxRows == 2
\* entries all successful search pages of one run carry together
MaxResults == 2
\* successful search page responses of one run
MaxPages == 2
\* ids handed to a stand-alone fetch_video_details call
MaxDetailIds == 4
\* largest CONFIG['batch_size'] tried in a stand-alone fetch_video_details call
MaxBatch == 3
\* rows of the table in a stand-alone update_missing_transcripts run
MaxBackfillRows == 25

\* line 288: `if updated_count % 10 == 0`
CheckpointEvery == 10
\* line 37: CONFIG['batch_size']
batch_size_default == 50

\* video ids of the small runs (an id is a number; the code only compares ids)
Ids == {1, 2}

----------------------------------------------------------------------------
(* Cell values *)

\* pandas' missing value (an empty CSV field read back, DataFrame.isna())
NaN == "NaN"
\* Python's None (dict.get of an absent key)
None == "None"
\* the sentinels of get_transcript_and_language
VideoError == "Video Error"
Unknown == "unknown"

\* the text and the language of a transcript that was retrieved and detected
Text == "text"
Lang == "en"
\* statistics as the table file holds them, and as the API reports them now
OldCount == "7"
NewCount == "9"

VARIABLES
    CONFIG,              \* lines 31-41: batch_size and the three phase switches
    captions,            \* the transcript service: video id -> "none" | "text" | "undetectable"
    disk,                \* the file at CONFIG['csv_file_path']: [exists, rows]
    disk0,               \* history: the file as it was when the run started
    saves,               \* history: one entry per save_data call
    pc,                  \* position of main
    existing_data,       \* main's DataFrame, a sequence of rows
    existing_video_ids,  \* line 305
    backfill_in,         \* history: existing_data when update_missing_transcripts was entered
    missing_transcripts, \* line 263: the index labels of the selected rows
    updated_count,       \* line 276
    calls,               \* history: the video ids passed to get_transcript_and_language
    caller,              \* who called fetch_video_details
    video_ids,           \* fetch_video_details' argument
    batch_i,             \* fetch_video_details' loop variable i
    results,             \* fetch_video_details' accumulated items
    requests,            \* history: the batches requested by this call, with their outcome
    all_videos,          \* search_youtube_videos' accumulator
    next_page_token,     \* 0 is None; p > 0 is the token of page p + 1
    page_count,          \* line 113
    R,                   \* history: the entries of every successful search response, in order
    search_exit,         \* history: why the search loop was left
    last_sleep,          \* argument of the last time.sleep of the search loop
    result               \* what main returned

vars == <<CONFIG, captions, disk, disk0, saves, pc, existing_data, existing_video_ids,
          backfill_in, missing_transcripts, updated_count, calls, caller, video_ids,
          batch_i, results, requests, all_videos, next_page_token, page_count, R,
          search_exit, last_sleep, result>>

tableVars == <<existing_data, existing_video_ids>>
backfillVars == <<backfill_in, missing_transcripts, updated_count, calls>>
detailVars == <<caller, video_ids, batch_i, results, requests>>
searchVars == <<all_videos, next_page_token, page_count, R, search_exit, last_sleep>>
envVars == <<CONFIG, captions, disk0>>

----------------------------------------------------------------------------
(* Table store *)

Min(a, b) == IF a < b THEN a ELSE b

\* DataFrame.to_csv writes a missing value, None and the empty string as an empty field
ToCsvCell(c) == IF c \in {NaN, None, ""} THEN "" ELSE c

\* pandas.read_csv reads an empty field as NaN
ReadCsvCell(c) == IF c = "" THEN NaN ELSE c

ToCsvRow(r) ==
    [video_id |-> r.video_id,
     view_count |-> ToCsvCell(r.view_count),
     like_count |-> ToCsvCell(r.like_count),
     comment_count |-> ToCsvCell(r.comment_count),
     transcription |-> ToCsvCell(r.transcription),
     detected_language |-> ToCsvCell(r.detected_language)]

ReadCsvRow(r) ==
    [video_id |-> r.video_id,
     view_count |-> ReadCsvCell(r.view_count),
     like_count |-> ReadCsvCell(r.like_count),
     comment_count |-> ReadCsvCell(r.comment_count),
     transcription |-> ReadCsvCell(r.transcription),
     detected_language |-> ReadCsvCell(r.detected_language)]

to_csv(df) == [i \in 1..Len(df) |-> ToCsvRow(df[i])]

read_csv(rows) == [i \in 1..Len(rows) |-> ReadCsvRow(rows[i])]

\* lines 59-69
load_existing_data(file) == IF file.exists THEN read_csv(file.rows) ELSE <<>>

\* lines 71-81. primary and backup say whether the first and the second to_csv
\* succeed; the second is called only when the first raised, and nothing
\* catches what it raises.
save_data(df, file, primary, backup) ==
    IF primary
    THEN [disk |-> [exists |-> TRUE, rows |-> to_csv(df)], wrote |-> "csv", raised |-> FALSE]
    ELSE IF backup
         THEN [disk |-> file, wrote |-> "backup", raised |-> FALSE]
         ELSE [disk |-> file, wrote |-> "nothing", raised |-> TRUE]

\* an entry of the history of save_data calls
SaveEntry(df, s, where, n) == [df |-> df, wrote |-> s.wrote, at |-> where, count |-> n]

----------------------------------------------------------------------------
(* Transcript fetcher *)

\* changed: a failed transcript request is not caught
get_transcript_and_language_Propagates(video_id, answer) ==
    IF answer = "none"
    THEN [transcript |-> VideoError, language |-> Unknown, raised |-> TRUE]
    ELSE IF answer = "undetectable"
         THEN [transcript |-> Text, language |-> Unknown, raised |-> FALSE]
         ELSE [transcript |-> Text, language |-> Lang, raised |-> FALSE]

\* lines 158-177. answer is what the transcript service holds for the video:
\* "none" (get_transcript raises), "undetectable" (the transcript is returned and
\* detect_language raises) or "text". raised tells the caller whether the call
\* raised instead of returning; both handlers return, so it never does. The id 0
\* stands for a falsy video_id (line 160).
get_transcript_and_language(video_id, answer) ==
    IF video_id = 0
    THEN [transcript |-> VideoError, language |-> Unknown, raised |-> FALSE]
    ELSE IF answer = "none"
         THEN [transcript |-> VideoError, language |-> Unknown, raised |-> FALSE]
         ELSE IF answer = "undetectable"
              THEN [transcript |-> Text, language |-> Unknown, raised |-> FALSE]
              ELSE [transcript |-> Text, language |-> Lang, raised |-> FALSE]

\* what the transcript service holds for a video
Answer(video_id) == IF video_id \in DOMAIN captions THEN captions[video_id] ELSE "none"

----------------------------------------------------------------------------
(* main: leaving, and the order of the phases *)

NoResult == [kind |-> "None", df |-> <<>>]
Pending == [kind |-> "pending", df |-> <<>>]
Returned(df) == [kind |-> "table", df |-> df]

\* lines 340-342: an exception that reaches main ends the run with None
Abort == pc' = "done" /\ result' = NoResult

\* line 314
AfterStats(df) == IF CONFIG.update_transcripts /\ df # <<>> THEN "transcripts" ELSE "search"

\* line 309
AfterLoad(df) == IF CONFIG.update_existing /\ df # <<>> THEN "stats" ELSE AfterStats(df)

\* lines 301-306
LoadExistingData ==
    /\ pc = "start"
    /\ existing_data' = load_existing_data(disk)
    /\ existing_video_ids' = {existing_data'[i].video_id : i \in 1..Len(existing_data')}
    /\ pc' = AfterLoad(existing_data')
    /\ UNCHANGED <<envVars, disk, saves, backfillVars, detailVars, searchVars, result>>

----------------------------------------------------------------------------
(* Statistics fetcher *)

\* line 91: video_ids[i:i + batch_size]
Batch(ids, i, size) == SubSeq(ids, i + 1, Min(i + size, Len(ids)))

\* changed: the loop steps one id too far
NextBatchStart_SkipsOne(i, size) == i + size + 1

\* line 90: the next value of range(0, len(video_ids), batch_size)
NextBatchStart(i, size) == i + size

\* changed: the quota signal is handled like any other HTTP error
StopsFetch_Never(outcome) == FALSE

\* lines 104-106: the loop is left on HTTP status 403 only
StopsFetch(outcome) == outcome = "quota"

\* the items of a videos().list response that reports the ids in found
Items(batch, found) ==
    LET Reported(x) == x \in found
        kept == SelectSeq(batch, Reported)
    IN  [k \in 1..Len(kept) |-> [id |-> kept[k], statistics |-> NewCount]]

\* the sets of ids a response to batch may report: all, none, all but the first
FoundSets(batch) ==
    LET all == {batch[k] : k \in 1..Len(batch)}
    IN  {all, {}, all \ {batch[1]}}

\* lines 85-88: entering fetch_video_details
FetchBegin(ids, who) ==
    /\ caller' = who
    /\ video_ids' = ids
    /\ batch_i' = 0
    /\ results' = <<>>
    /\ requests' = <<>>
    /\ pc' = IF ids = <<>> THEN "details_done" ELSE "details"

\* lines 90-106: one iteration of the loop
FetchVideoDetailsBatch ==
    /\ pc = "details"
    /\ batch_i < Len(video_ids)
    /\ LET batch == Batch(video_ids, batch_i, CONFIG.batch_size)
           next == NextBatchStart(batch_i, CONFIG.batch_size)
       IN  \E outcome \in {"ok", "quota", "http", "error"} :
           \E found \in (IF outcome = "ok" THEN FoundSets(batch) ELSE {{}}) :
             /\ requests' = Append(requests, [batch |-> batch, outcome |-> outcome,
                                              items |-> Items(batch, found)])
             /\ IF outcome = "error"
                THEN /\ Abort
                     /\ UNCHANGED <<batch_i, results>>
                ELSE IF StopsFetch(outcome)
                THEN /\ pc' = "details_done"
                     /\ UNCHANGED <<batch_i, results, result>>
                ELSE /\ results' = IF outcome = "ok"
                                   THEN results \o Items(batch, found)
                                   ELSE results
                     /\ batch_i' = next
                     /\ pc' = IF next < Len(video_ids) THEN "details" ELSE "details_done"
                     /\ UNCHANGED result
    /\ UNCHANGED <<envVars, disk, saves, tableVars, backfillVars, caller, video_ids,
                   searchVars>>

\* line 107 in a caller of this file: the call's frame is gone once its result
\* has been used
FetchFrameDropped ==
    /\ caller' = "nobody"
    /\ video_ids' = <<>>
    /\ batch_i' = 0
    /\ results' = <<>>
    /\ requests' = <<>>

\* line 107, for a call of fetch_video_details on its own
FetchVideoDetailsReturn ==
    /\ pc = "details_done"
    /\ caller = "call"
    /\ pc' = "done"
    /\ result' = [kind |-> "details", df |-> results]
    /\ UNCHANGED <<envVars, disk, saves, tableVars, backfillVars, detailVars, searchVars>>

\* lines 191/241: the dictionary {v['id']: v for v in detailed_videos}
HasDetails(items, id) == \E k \in 1..Len(items) : items[k].id = id

\* statistics.get(...) of the video's details, None when it has none
StatOf(items, id) ==
    IF HasDetails(items, id)
    THEN LET last == CHOOSE k \in 1..Len(items) :
                        /\ items[k].id = id
                        /\ \A j \in 1..Len(items) : items[j].id = id => j <= k
         IN  items[last].statistics
    ELSE None

----------------------------------------------------------------------------
(* Refreshing the statistics of the existing rows *)

\* lines 235-240
UpdateExistingStats ==
    /\ pc = "stats"
    /\ FetchBegin([i \in 1..Len(existing_data) |-> existing_data[i].video_id], "refresh")
    /\ UNCHANGED <<envVars, disk, saves, tableVars, backfillVars, searchVars, result>>

\* lines 245-252
WithStats(df, items) ==
    [i \in 1..Len(df) |->
        IF HasDetails(items, df[i].video_id)
        THEN [df[i] EXCEPT !.view_count = StatOf(items, df[i].video_id),
                           !.like_count = StatOf(items, df[i].video_id),
                           !.comment_count = StatOf(items, df[i].video_id)]
        ELSE df[i]]

\* lines 241-255, then lines 310-311 of main
UpdateExistingStatsEnd ==
    /\ pc = "details_done"
    /\ caller = "refresh"
    /\ existing_data' = WithStats(existing_data, results)
    /\ \E primary, backup \in BOOLEAN :
         LET s == save_data(existing_data', disk, primary, backup)
         IN  /\ disk' = s.disk
             /\ saves' = Append(saves, SaveEntry(existing_data', s, "stats", 0))
             /\ IF s.raised
                THEN Abort
                ELSE pc' = AfterStats(existing_data') /\ UNCHANGED result
    /\ FetchFrameDropped
    /\ UNCHANGED <<envVars, existing_video_ids, backfillVars, searchVars>>

----------------------------------------------------------------------------
(* Backfilling the missing transcripts *)

\* changed: rows holding "Video Error" are not selected
IsMissing_NoVideoError(row) ==
    \/ row.transcription \in {NaN, None}
    \/ row.transcription = ""

\* lines 263-267: isna(), == '' or == 'Video Error'
IsMissing(row) ==
    \/ row.transcription \in {NaN, None}
    \/ row.transcription = ""
    \/ row.transcription = VideoError

\* lines 263-267: the index labels of the selected rows of df from i on, ascending
RECURSIVE Select(_, _)
Select(df, i) ==
    IF i > Len(df) THEN <<>>
    ELSE IF IsMissing(df[i]) THEN <<i>> \o Select(df, i + 1)
         ELSE Select(df, i + 1)

\* changed: the count is tested one row late
IsCheckpoint_OneLate(n) == n % CheckpointEvery = 1

\* line 288
IsCheckpoint(n) == n % CheckpointEvery = 0

\* lines 259-276; when no row is selected the function returns at line 271 and
\* main saves at line 316
UpdateMissingTranscripts ==
    /\ pc = "transcripts"
    /\ backfill_in' = existing_data
    /\ missing_transcripts' = Select(existing_data, 1)
    /\ updated_count' = 0
    /\ IF missing_transcripts' = <<>>
       THEN \E primary, backup \in BOOLEAN :
              LET s == save_data(existing_data, disk, primary, backup)
              IN  /\ disk' = s.disk
                  /\ saves' = Append(saves, SaveEntry(existing_data, s, "main", 0))
                  /\ IF s.raised THEN Abort ELSE pc' = "search" /\ UNCHANGED result
       ELSE /\ pc' = "backfill"
            /\ UNCHANGED <<disk, saves, result>>
    /\ UNCHANGED <<envVars, tableVars, calls, detailVars, searchVars>>

\* lines 277-293: one iteration of the loop
UpdateMissingTranscriptsRow ==
    /\ pc = "backfill"
    /\ updated_count < Len(missing_transcripts)
    /\ LET index == missing_transcripts[updated_count + 1]
           video_id == backfill_in[index].video_id
           t == get_transcript_and_language(video_id, Answer(video_id))
           df == [existing_data EXCEPT ![index].transcription = t.transcript,
                                       ![index].detected_language = t.language]
       IN  /\ calls' = Append(calls, video_id)
           /\ IF t.raised
              THEN /\ Abort
                   /\ UNCHANGED <<existing_data, updated_count, disk, saves>>
              ELSE /\ existing_data' = df
                   /\ updated_count' = updated_count + 1
                   /\ IF IsCheckpoint(updated_count')
                      THEN \E primary, backup \in BOOLEAN :
                             LET s == save_data(df, disk, primary, backup)
                             IN  /\ disk' = s.disk
                                 /\ saves' = Append(saves,
                                        SaveEntry(df, s, "checkpoint", updated_count'))
                                 /\ IF s.raised
                                    THEN Abort
                                    ELSE UNCHANGED <<pc, result>>
                      ELSE UNCHANGED <<disk, saves, pc, result>>
    /\ UNCHANGED <<envVars, existing_video_ids, backfill_in, missing_transcripts,
                   detailVars, searchVars>>

\* lines 295-296, then line 316 of main
UpdateMissingTranscriptsEnd ==
    /\ pc = "backfill"
    /\ updated_count = Len(missing_transcripts)
    /\ \E primary, backup \in BOOLEAN :
         LET s == save_data(existing_data, disk, primary, backup)
         IN  /\ disk' = s.disk
             /\ saves' = Append(saves, SaveEntry(existing_data, s, "main", updated_count))
             /\ IF s.raised THEN Abort ELSE pc' = "search" /\ UNCHANGED result
    /\ UNCHANGED <<envVars, tableVars, backfillVars, detailVars, searchVars>>

----------------------------------------------------------------------------
(* Search paginator *)

\* all sequences over S of length at most n
SeqsUpTo(S, n) == UNION {[1..k -> S] : k \in 0..n}

\* changed: the entries are not filtered
NewVideos_Unfiltered(videos, known) == videos

\* line 130: an entry is kept when its id is not in existing_video_ids
NewVideos(videos, known) ==
    LET IsNew(v) == v \notin known
    IN  SelectSeq(videos, IsNew)

\* changed: every HttpError leaves the loop
LeavesSearch_AnyHttpError(error) == error \in {"quota", "http"}

\* lines 144-154: what an exception raised in the loop body does: TRUE leaves the
\* loop, FALSE sleeps and goes round again
LeavesSearch(error) == error = "quota"

\* changed: main does not return early when the search found nothing
SearchReturns_NoEarlyReturn(found) ==
    /\ caller' = "process"
    /\ video_ids' = found
    /\ batch_i' = 0
    /\ results' = <<>>
    /\ requests' = <<>>
    /\ pc' = IF found = <<>> THEN "details_done" ELSE "details"
    /\ UNCHANGED result

\* lines 156 and 320-328: the search returns and main goes on
SearchReturns(found) ==
    IF found = <<>>
    THEN /\ pc' = "done"
         /\ result' = Returned(existing_data)
         /\ UNCHANGED detailVars
    ELSE /\ FetchBegin(found, "process")
         /\ UNCHANGED result

\* lines 117-142: a request that is answered. videos are the entries of the page
\* and more tells whether the response carries a nextPageToken.
SearchPage ==
    /\ pc = "search"
    /\ page_count < MaxPages
    /\ \E videos \in SeqsUpTo(Ids, MaxResults - Len(R)) :
       \E more \in BOOLEAN :
         /\ more => page_count + 1 < MaxPages
         /\ R' = R \o videos
         /\ all_videos' = all_videos \o NewVideos(videos, existing_video_ids)
         /\ page_count' = page_count + 1
         /\ next_page_token' = IF more THEN page_count + 1 ELSE 0
         /\ IF more
            THEN /\ last_sleep' = 1
                 /\ UNCHANGED <<pc, result, detailVars, search_exit>>
            ELSE /\ search_exit' = "no token"
                 /\ SearchReturns(all_videos')
                 /\ UNCHANGED last_sleep
    /\ UNCHANGED <<envVars, disk, saves, tableVars, backfillVars>>

\* lines 144-154: a request that raises. error is "quota" (HttpError 403),
\* "http" (another HttpError) or "other" (another Exception).
SearchError ==
    /\ pc = "search"
    /\ \E error \in {"quota", "http", "other"} :
         IF LeavesSearch(error)
         THEN /\ search_exit' = error
              /\ SearchReturns(all_videos)
              /\ UNCHANGED last_sleep
         ELSE /\ last_sleep' = 10
              /\ UNCHANGED <<pc, result, detailVars, search_exit>>
    /\ UNCHANGED <<envVars, disk, saves, tableVars, backfillVars, all_videos,
                   next_page_token, page_count, R>>

----------------------------------------------------------------------------
(* Processing the new videos and appending them *)

\* lines 196-220: the record of one search entry
Record(video_id, items, include_transcripts, t) ==
    [video_id |-> video_id,
     view_count |-> StatOf(items, video_id),
     like_count |-> StatOf(items, video_id),
     comment_count |-> StatOf(items, video_id),
     transcription |-> IF include_transcripts THEN t.transcript ELSE "",
     detected_language |-> IF include_transcripts THEN t.language ELSE ""]

\* lines 194-227
process_videos(search_results, items, include_transcripts) ==
    LET T(i) == get_transcript_and_language(search_results[i], Answer(search_results[i]))
    IN  [records |-> [i \in 1..Len(search_results) |->
                        Record(search_results[i], items, include_transcripts, T(i))],
         raised |-> include_transcripts /\ \E i \in 1..Len(search_results) : T(i).raised]

\* line 333: pd.concat([existing_data, new_data], ignore_index=True)
Concat(existing, new) == existing \o new

\* lines 191-227 of process_videos, then lines 331-336 of main
ProcessVideos ==
    /\ pc = "details_done"
    /\ caller = "process"
    /\ LET p == process_videos(all_videos, results, CONFIG.fetch_transcripts)
           combined_data == Concat(existing_data, p.records)
       IN  /\ calls' = IF CONFIG.fetch_transcripts THEN calls \o all_videos ELSE calls
           /\ IF p.raised
              THEN /\ Abort
                   /\ UNCHANGED <<disk, saves>>
              ELSE \E primary, backup \in BOOLEAN :
                     LET s == save_data(combined_data, disk, primary, backup)
                     IN  /\ disk' = s.disk
                         /\ saves' = Append(saves, SaveEntry(combined_data, s, "append", 0))
                         /\ pc' = "done"
                         /\ result' = IF s.raised THEN NoResult ELSE Returned(combined_data)
    /\ FetchFrameDropped
    /\ UNCHANGED <<envVars, tableVars, backfill_in, missing_transcripts, updated_count,
                   searchVars>>

----------------------------------------------------------------------------
(* The run of main *)

\* a row of the table file: its transcript was never fetched ("empty"), failed
\* ("error") or was stored ("done")
FileRow(video_id, state) ==
    [video_id |-> video_id,
     view_count |-> OldCount,
     like_count |-> OldCount,
     comment_count |-> OldCount,
     transcription |-> IF state = "empty" THEN ""
                       ELSE IF state = "error" THEN VideoError ELSE Text,
     detected_language |-> IF state = "empty" THEN ""
                           ELSE IF state = "error" THEN Unknown ELSE Lang]

RowStates == {"empty", "error", "done"}
Answers == {"none", "text", "undetectable"}
NoFile == [exists |-> FALSE, rows |-> <<>>]
File(rows) == [exists |-> TRUE, rows |-> rows]

\* the table files of at most n rows over the ids S, no id twice (section 3 of
\* the specification: video_id is the key of the table)
Tables(S, n) ==
    {rows \in SeqsUpTo({FileRow(x, st) : x \in S, st \in RowStates}, n) :
        \A i, j \in 1..Len(rows) : rows[i].video_id = rows[j].video_id => i = j}

\* a transcript service whose answers go in turn by video id
Turns(S) ==
    [x \in S |-> IF x % 3 = 1 THEN "none" ELSE IF x % 3 = 2 THEN "text" ELSE "undetectable"]

\* the transcript services tried on a large table: one answer for every video,
\* or the answers in turn
Services(S) == {[x \in S |-> a] : a \in Answers} \cup {Turns(S)}

\* the transcript services tried in a run of main: the answers in turn, or no
\* language detected for any video
RunServices(S) == {Turns(S), [x \in S |-> "undetectable"]}

\* the state of main before its first statement
Entry ==
    /\ disk0 = disk
    /\ saves = <<>>
    /\ existing_data = <<>>
    /\ existing_video_ids = {}
    /\ backfill_in = <<>>
    /\ missing_transcripts = <<>>
    /\ updated_count = 0
    /\ calls = <<>>
    /\ results = <<>>
    /\ requests = <<>>
    /\ batch_i = 0
    /\ all_videos = <<>>
    /\ next_page_token = 0
    /\ page_count = 0
    /\ R = <<>>
    /\ search_exit = "running"
    /\ last_sleep = 0
    /\ result = Pending

\* a run of main on a small table file, under every setting of the switches
Init ==
    /\ CONFIG \in [batch_size : {batch_size_default}, update_existing : BOOLEAN,
                    fetch_transcripts : BOOLEAN, update_transcripts : BOOLEAN]
    /\ captions \in RunServices(Ids)
    /\ (~CONFIG.fetch_transcripts /\ ~CONFIG.update_transcripts) => captions = Turns(Ids)
    /\ disk \in {NoFile} \cup {File(rows) : rows \in Tables(Ids, MaxRows)}
    /\ pc = "start"
    /\ caller = "nobody"
    /\ video_ids = <<>>
    /\ Entry

Next ==
    \/ LoadExistingData
    \/ UpdateExistingStats
    \/ FetchVideoDetailsBatch
    \/ UpdateExistingStatsEnd
    \/ UpdateMissingTranscripts
    \/ UpdateMissingTranscriptsRow
    \/ UpdateMissingTranscriptsEnd
    \/ SearchPage
    \/ SearchError
    \/ ProcessVideos

Spec == Init /\ [][Next]_vars

----------------------------------------------------------------------------
(* fetch_video_details called on its own *)

\* the switches as lines 38-40 set them, except those named
Switches(size, refresh, fetch, backfill) ==
    [batch_size |-> size, update_existing |-> refresh,
     fetch_transcripts |-> fetch, update_transcripts |-> backfill]

\* a call fetch_video_details(youtube, <<1, ..., n>>) under a batch size
InitDetails ==
    /\ CONFIG \in {Switches(size, FALSE, TRUE, FALSE) : size \in 1..MaxBatch}
    /\ captions = Turns(Ids)
    /\ disk = NoFile
    /\ caller = "call"
    /\ video_ids \in {[i \in 1..n |-> i] : n \in 0..MaxDetailIds}
    /\ pc = IF video_ids = <<>> THEN "details_done" ELSE "details"
    /\ Entry

NextDetails ==
    \/ FetchVideoDetailsBatch
    \/ FetchVideoDetailsReturn

SpecDetails == InitDetails /\ [][NextDetails]_vars

----------------------------------------------------------------------------
(* main up to the end of the backfill phase, on a table of many rows *)

\* the state of row i of a table file: the same for every row, or in turn
RowPattern(pattern, i) ==
    IF pattern \in RowStates THEN pattern
    ELSE IF i % 3 = 1 THEN "empty" ELSE IF i % 3 = 2 THEN "error" ELSE "done"

InitBackfill ==
    /\ CONFIG = Switches(batch_size_default, FALSE, TRUE, TRUE)
    /\ \E n \in 0..MaxBackfillRows :
         /\ captions \in Services(1..n)
         /\ \E pattern \in RowStates \cup {"turns"} :
              disk = File([i \in 1..n |-> FileRow(i, RowPattern(pattern, i))])
    /\ pc = "start"
    /\ caller = "nobody"
    /\ video_ids = <<>>
    /\ Entry

NextBackfill ==
    \/ LoadExistingData
    \/ UpdateMissingTranscripts
    \/ UpdateMissingTranscriptsRow
    \/ UpdateMissingTranscriptsEnd

SpecBackfill == InitBackfill /\ [][NextBackfill]_vars

----------------------------------------------------------------------------
(* Vocabulary of the properties *)

Last(seq) == seq[Len(seq)]

\* the video ids of a table
TableIds(df) == {df[i].video_id : i \in 1..Len(df)}

\* seq without its elements that are in K, order kept
RECURSIVE Excluding(_, _)
Excluding(seq, K) ==
    IF seq = <<>> THEN <<>>
    ELSE IF Head(seq) \in K THEN Excluding(Tail(seq), K)
         ELSE <<Head(seq)>> \o Excluding(Tail(seq), K)

\* no two rows of the table have the same video_id
UniqueIds(df) == \A i, j \in 1..Len(df) : df[i].video_id = df[j].video_id => i = j

\* the save_data call of line 334 has been made
Appended == saves # <<>> /\ Last(saves).at = "append"

\* the table the run loaded
Loaded == load_existing_data(disk0)

----------------------------------------------------------------------------
(* C1 *)

\* C1: the entries the search has accumulated are exactly the entries of the
\* successful pages (R) whose id is not in the table (K), in search-result order;
\* the table main saves at line 334 is the existing rows followed by one row per
\* such entry, in that order, and none of the appended rows has an id in K.
C1_NewRowsAreFilteredResults ==
    LET K == TableIds(Loaded)
        new == Excluding(R, K)
    IN  /\ pc # "start" => all_videos = new
        /\ Appended =>
              LET df == Last(saves).df
                  n == Len(existing_data)
              IN  /\ Len(df) = n + Len(new)
                  /\ SubSeq(df, 1, n) = existing_data
                  /\ \A i \in 1..Len(new) :
                        /\ df[n + i].video_id = new[i]
                        /\ df[n + i].video_id \notin K
                  /\ Last(saves).wrote = "csv" => disk = File(to_csv(df))

\* a run that met a known id and a new id on two pages and saved the new row
\* after the existing ones
C1_Witness ==
    /\ pc = "done"
    /\ Appended
    /\ Last(saves).wrote = "csv"
    /\ existing_data # <<>>
    /\ page_count = 2
    /\ Len(all_videos) >= 1
    /\ Len(R) > Len(all_videos)

----------------------------------------------------------------------------
(* C2 *)

\* C2: if the table loaded at the start of the run has no two rows with the same
\* video_id, the table file at the end of the run has none either.
C2_VideoIdUnique ==
    (pc = "done" /\ UniqueIds(Loaded)) => UniqueIds(disk.rows)

----------------------------------------------------------------------------
(* C3 *)

\* every entry the search returned has an id that was already in the table
NothingNew == \A i \in 1..Len(R) : R[i] \in TableIds(Loaded)

\* C3 as stated: when the search returns nothing new, the run leaves the table
\* file as it was.
C3_UnchangedWhenNothingNew ==
    (pc = "done" /\ NothingNew) => disk = disk0

\* C3 amended: with the statistics refresh and the transcript backfill switched
\* off, a run whose search returns nothing new makes no save_data call and leaves
\* the table file as it was.
C3_UnchangedWhenNothingNewAndPhasesOff ==
    (/\ pc = "done"
     /\ NothingNew
     /\ ~CONFIG.update_existing
     /\ ~CONFIG.update_transcripts) => (disk = disk0 /\ saves = <<>>)

\* such a run: the search returned entries, all of them known, and main returned
\* the table
C3_Witness ==
    /\ pc = "done"
    /\ ~CONFIG.update_existing
    /\ ~CONFIG.update_transcripts
    /\ R # <<>>
    /\ NothingNew
    /\ result = Returned(existing_data)
    /\ disk = disk0

----------------------------------------------------------------------------
(* C4 *)

\* what the claim says the fetcher returns for a video, from the service's answer
Expected(x) ==
    IF Answer(x) = "none" THEN <<VideoError, Unknown>>
    ELSE IF Answer(x) = "undetectable" THEN <<Text, Unknown>>
         ELSE <<Text, Lang>>

\* the row holds what the claim says the fetcher returns for its video
HoldsExpected(row) == <<row.transcription, row.detected_language>> = Expected(row.video_id)

\* the update_missing_transcripts call has returned
BackfillReturned == \E k \in 1..Len(saves) : saves[k].at = "main"

\* C4: a failing transcript request gives exactly ("Video Error", "unknown") and a
\* failing language detection gives (text, "unknown"), neither raises; a run ends
\* with None only after a save_data call or a statistics request raised; when the
\* backfill returns, every selected row holds the fetcher's pair for its video, and
\* when new rows are appended with transcripts, every one of them does.
C4_TranscriptFailureIsSentinel ==
    /\ \A x \in DOMAIN captions :
          LET t == get_transcript_and_language(x, captions[x])
          IN  /\ ~t.raised
              /\ <<t.transcript, t.language>> = Expected(x)
    /\ result = NoResult =>
          \/ saves # <<>> /\ Last(saves).wrote = "nothing"
          \/ requests # <<>> /\ Last(requests).outcome = "error"
    /\ BackfillReturned =>
          /\ updated_count = Len(missing_transcripts)
          /\ \A k \in 1..Len(missing_transcripts) :
                HoldsExpected(existing_data[missing_transcripts[k]])
    /\ (Appended /\ CONFIG.fetch_transcripts) =>
          LET df == Last(saves).df
          IN  /\ Len(df) = Len(existing_data) + Len(all_videos)
              /\ \A i \in 1..Len(all_videos) : HoldsExpected(df[Len(existing_data) + i])

\* two new videos were appended, the first with a failed transcript request and
\* the second, processed after it, with its transcript
C4_Witness ==
    /\ pc = "done"
    /\ Appended
    /\ CONFIG.fetch_transcripts
    /\ Len(all_videos) >= 2
    /\ LET df == Last(saves).df
           n == Len(existing_data)
       IN  /\ df[n + 1].transcription = VideoError
           /\ df[n + 1].detected_language = Unknown
           /\ df[n + 2].transcription = Text
    /\ result.kind = "table"

----------------------------------------------------------------------------
(* C5 *)

\* ceil(n / size)
Ceil(n, size) == (n + size - 1) \div size

\* the k-th consecutive slice of at most size elements of ids
Slice(ids, k, size) ==
    [j \in 1..(Min(k * size, Len(ids)) - (k - 1) * size) |-> ids[(k - 1) * size + j]]

\* the batches requested so far, one after the other
RECURSIVE Requested(_)
Requested(reqs) ==
    IF reqs = <<>> THEN <<>> ELSE Head(reqs).batch \o Requested(Tail(reqs))

\* a stand-alone fetch_video_details call has returned
CallOver == caller = "call" /\ pc = "done" /\ result.kind = "details"

\* C5 as stated: a call on N ids with batch size B that returns has issued exactly
\* ceil(N/B) requests, which together cover every id once, in input order.
C5_ExactlyCeilRequests ==
    CallOver =>
        /\ Len(requests) = Ceil(Len(video_ids), CONFIG.batch_size)
        /\ Requested(requests) = video_ids

\* C5 amended: the k-th request carries the k-th consecutive slice of at most B
\* ids of the input; there are never more than ceil(N/B) requests; and a call
\* that returns without any request having met the quota signal has issued
\* exactly ceil(N/B) requests, which together are the input (none when N = 0).
C5_BatchesAreSlices ==
    caller = "call" =>
        LET B == CONFIG.batch_size
            N == Len(video_ids)
        IN  /\ \A k \in 1..Len(requests) :
                  /\ requests[k].batch = Slice(video_ids, k, B)
                  /\ Len(requests[k].batch) \in 1..B
            /\ Len(requests) <= Ceil(N, B)
            /\ (/\ CallOver
                /\ \A k \in 1..Len(requests) : requests[k].outcome # "quota") =>
                  /\ Len(requests) = Ceil(N, B)
                  /\ Requested(requests) = video_ids

\* a finished call with several full batches and a shorter last one
C5_Witness ==
    /\ CallOver
    /\ CONFIG.batch_size = 2
    /\ Len(video_ids) = 3
    /\ Len(requests) = 2
    /\ Len(requests[2].batch) = 1
    /\ \A k \in 1..Len(requests) : requests[k].outcome # "quota"

----------------------------------------------------------------------------
(* C6 *)

\* the items of the answered requests among the first n, in order
RECURSIVE Collected(_, _)
Collected(reqs, n) ==
    IF n = 0 THEN <<>>
    ELSE Collected(reqs, n - 1) \o
         (IF reqs[n].outcome = "ok" THEN reqs[n].items ELSE <<>>)

\* C6: a request that meets the quota signal is the last one of the call, and the
\* call then returns, without raising, the items of the requests before it; a
\* request that meets another HTTP error is followed by the request of the next
\* batch whenever there is one.
C6_QuotaStopsOtherErrorsSkip ==
    caller = "call" =>
        LET B == CONFIG.batch_size
            N == Len(video_ids)
        IN  \A k \in 1..Len(requests) :
              /\ requests[k].outcome = "quota" =>
                    /\ k = Len(requests)
                    /\ pc \in {"details_done", "done"}
                    /\ results = Collected(requests, k - 1)
                    /\ pc = "done" => result = [kind |-> "details", df |-> results]
              /\ (requests[k].outcome = "http" /\ k * B < N) =>
                    \/ pc = "details" /\ k = Len(requests)
                    \/ /\ k < Len(requests)
                       /\ requests[k + 1].batch = Slice(video_ids, k + 1, B)

\* the scenario of the specification: three batches, the quota signal on the
\* second, the call returned the details of the first
C6_Witness ==
    /\ CallOver
    /\ CONFIG.batch_size = 1
    /\ Len(video_ids) = 3
    /\ Len(requests) = 2
    /\ requests[1].outcome = "ok"
    /\ requests[2].outcome = "quota"
    /\ result = [kind |-> "details", df |-> requests[1].items]
    /\ result.df # <<>>

----------------------------------------------------------------------------
(* C7 *)

\* the rows the claim says the backfill selects
Chosen(df) == {i \in 1..Len(df) : df[i].transcription \in {NaN, "", VideoError}}

\* update_missing_transcripts has been entered (in a run of SpecBackfill)
BackfillEntered == pc = "backfill" \/ saves # <<>>

\* C7: during and after the backfill the table has the rows it had when the phase
\* was entered; a row that is not selected is unchanged; a selected row differs at
\* most in transcription and detected_language; the fetcher is called only for
\* selected rows, once each, and when the phase returns it has been called for
\* every one of them.
C7_BackfillTouchesOnlySelectedRows ==
    BackfillEntered =>
        LET df0 == backfill_in
            sel == Chosen(df0)
        IN  /\ df0 = Loaded
            /\ Len(existing_data) = Len(df0)
            /\ \A i \in 1..Len(df0) :
                  IF i \in sel
                  THEN existing_data[i] =
                         [df0[i] EXCEPT
                            !.transcription = existing_data[i].transcription,
                            !.detected_language = existing_data[i].detected_language]
                  ELSE existing_data[i] = df0[i]
            /\ \A k \in 1..Len(calls) : \E i \in sel : df0[i].video_id = calls[k]
            /\ \A k, l \in 1..Len(calls) : calls[k] = calls[l] => k = l
            /\ BackfillReturned =>
                  {calls[k] : k \in 1..Len(calls)} = {df0[i].video_id : i \in sel}

\* a backfill that returned after rewriting a row with a missing transcript and a
\* row with "Video Error", on a table that also holds a row it did not select
C7_Witness ==
    /\ pc = "search"
    /\ BackfillReturned
    /\ \E i, j, k \in 1..Len(backfill_in) :
         /\ backfill_in[i].transcription = NaN
         /\ existing_data[i].transcription = VideoError
         /\ backfill_in[j].transcription = VideoError
         /\ existing_data[j].transcription = Text
         /\ backfill_in[k].transcription = Text
         /\ existing_data[k] = backfill_in[k]

----------------------------------------------------------------------------
(* C8 *)

\* the table once the first m selected rows have been processed
AfterRows(m) ==
    [i \in 1..Len(backfill_in) |->
        IF \E j \in 1..m : missing_transcripts[j] = i
        THEN existing_data[i]
        ELSE backfill_in[i]]

\* C8: with n selected rows, the k-th save_data call of the phase, for k up to
\* floor(n/10), is made by the loop right after the (10k)-th row and is handed
\* the table with the first 10k selected rows processed; while the loop runs
\* there are exactly floor(m/10) calls after m rows; the one call after these is
\* main's, handed the final table, and there is no other.
C8_CheckpointEveryTenRows ==
    LET n == Len(missing_transcripts)
    IN  /\ Len(saves) <= n \div 10 + 1
        /\ pc = "backfill" => Len(saves) = updated_count \div 10
        /\ (pc = "search" /\ Loaded # <<>>) => Len(saves) = n \div 10 + 1
        /\ \A k \in 1..Len(saves) :
              IF k <= n \div 10
              THEN /\ saves[k].at = "checkpoint"
                   /\ saves[k].count = 10 * k
                   /\ updated_count >= 10 * k
                   /\ saves[k].df = AfterRows(10 * k)
              ELSE /\ saves[k].at = "main"
                   /\ saves[k].count = n
                   /\ updated_count = n
                   /\ saves[k].df = existing_data

\* the 25-row backfill: a save after row 10, a save after row 20, main's save
C8_Witness ==
    /\ pc = "search"
    /\ Len(missing_transcripts) = 25
    /\ Len(saves) = 3
    /\ saves[1].at = "checkpoint" /\ saves[1].count = 10
    /\ saves[2].at = "checkpoint" /\ saves[2].count = 20
    /\ saves[3].at = "main" /\ saves[3].df = existing_data
    /\ saves[1].df # saves[2].df

----------------------------------------------------------------------------
(* C9 *)

\* C9: every save_data call returns: none of them raises.
C9_SaveDataNeverRaises ==
    \A k \in 1..Len(saves) : saves[k].wrote # "nothing"

----------------------------------------------------------------------------
(* C10 *)

\* a request of the search loop raises and the loop goes round again
SearchRetries == SearchError /\ pc' = "search"

\* the steps the claim allows the search loop
SearchStep ==
    \/ /\ pc' = "search"
       /\ last_sleep' = 10
       /\ UNCHANGED <<all_videos, next_page_token, page_count, R, search_exit>>
    \/ /\ pc' = "search"
       /\ page_count' = page_count + 1
       /\ next_page_token' # 0
       /\ last_sleep' = 1
       /\ search_exit' = "running"
    \/ /\ pc' # "search"
       /\ search_exit' = "no token"
       /\ page_count' = page_count + 1
       /\ next_page_token' = 0
    \/ /\ pc' # "search"
       /\ search_exit' = "quota"
       /\ UNCHANGED <<all_videos, next_page_token, page_count, R>>
       /\ result' # NoResult
       /\ IF all_videos = <<>>
          THEN pc' = "done" /\ result' = Returned(existing_data)
          ELSE pc' = "details" /\ video_ids' = all_videos

\* C10: the search loop is left only by a page without continuation token or by
\* the quota signal, and the quota signal hands the accumulated entries on without
\* raising; any other error leaves the page token, the page count and the
\* accumulated entries as they were and the request is made again; such a retry is
\* possible in every state of the loop, however many went before.
C10_SearchLoopExits ==
    /\ [](search_exit \in {"running", "no token", "quota"})
    /\ [](pc = "search" => ENABLED SearchRetries)
    /\ [][pc = "search" => SearchStep]_vars

\* the loop is back at its head after an error on the second request: it holds
\* the token and the entries of the first page
C10_Witness ==
    /\ pc = "search"
    /\ last_sleep = 10
    /\ page_count = 1
    /\ next_page_token # 0
    /\ all_videos # <<>>
    /\ search_exit = "running"

====
